---- MODULE Spec2Model ----
(***************************************************************************)
(* A model of the neural-network engine of src/src/nn.ts: the Node/Link    *)
(* graph, buildNetwork, forwardProp, backProp, updateWeights and the       *)
(* additions updateWeightsWithAdam, forwardPropWithBatch and               *)
(* backPropWithBatch.                                                      *)
(*                                                                         *)
(* Numbers.  A JavaScript number is a double.  The model keeps the shape   *)
(* of floating-point arithmetic at a coarse precision: a number is a pair  *)
(* <<n, d>> that stands for n/Scale when d = Scale, for NaN when d = 0 and *)
(* for the value `undefined` (a field never assigned, an array slot never  *)
(* written) when d < 0.  Sums and differences are exact; products,         *)
(* quotients and square roots are rounded to the nearest multiple of       *)
(* 1/Scale, and a result that is not zero is never rounded to zero (no     *)
(* underflow), so that signs are those of the exact result.  Infinity is   *)
(* not modelled: no call of the model divides by zero or overflows.        *)
(*                                                                         *)
(* Objects.  Nodes and links are objects in the source; here they are      *)
(* handles (their creation order) into the functions `node` and `link`, so *)
(* that the link shared by source.outputs and dest.inputLinks is one       *)
(* object.                                                                 *)
(***************************************************************************)
EXTENDS Integers, Sequences, FiniteSets, TLC

VARIABLES
    args,      \* the arguments of the buildNetwork call that built the network
    network,   \* Node[][]: the layers, each a sequence of node handles
    node,      \* node handle -> the fields of the Node object
    link,      \* link handle -> the fields of the Link object
    iter,      \* the caller's count of update calls (the Adam step counter t)
    left,      \* the number of calls the caller still makes on the network
    ret        \* the latest call: its name, arguments, and what it returned or threw

vars == <<args, network, node, link, iter, left, ret>>

----------------------------------------------------------------------------
(* JavaScript numbers *)

\* the grid: 1/3600, so that 1/10, 1/4, 1/3 and the square root of 1/Scale
\* are exact
Scale == 60 * 60

NaN == <<0, 0>>
Undefined == <<0, -1>>

Abs(n) == IF n < 0 THEN -n ELSE n

\* the integer nearest to p/q, for q > 0; never 0 when p is not 0
RoundDiv(p, q) ==
    LET r == (2 * Abs(p) + q) \div (2 * q)
        m == IF p # 0 /\ r = 0 THEN 1 ELSE r
    IN  IF p < 0 THEN -m ELSE m

\* the number n/d
Frac(n, d) == <<RoundDiv(n * Scale, d), Scale>>
Num(n) == <<n * Scale, Scale>>
Zero == <<0, Scale>>
One == <<Scale, Scale>>

IsNum(x) == x[2] > 0

\* the arithmetic operators of JavaScript: any operand that is NaN or
\* undefined makes the result NaN
Add(a, b) == IF IsNum(a) /\ IsNum(b) THEN <<a[1] + b[1], Scale>> ELSE NaN
Sub(a, b) == IF IsNum(a) /\ IsNum(b) THEN <<a[1] - b[1], Scale>> ELSE NaN
Mul(a, b) == IF IsNum(a) /\ IsNum(b)
             THEN <<RoundDiv(a[1] * b[1], Scale), Scale>> ELSE NaN
\* a / b, for b not 0 (0/0 is NaN)
Div(a, b) == IF IsNum(a) /\ IsNum(b) /\ b[1] # 0
             THEN <<RoundDiv((IF b[1] < 0 THEN -a[1] ELSE a[1]) * Scale, Abs(b[1])),
                    Scale>>
             ELSE NaN
\* a < b and a <= b: false when an operand is NaN or undefined
Lt(a, b) == IsNum(a) /\ IsNum(b) /\ a[1] < b[1]
Le(a, b) == IsNum(a) /\ IsNum(b) /\ a[1] <= b[1]

\* Math.pow(a, k) for an integer k >= 0
RECURSIVE Pow(_, _)
Pow(a, k) == IF k = 0 THEN One ELSE Mul(a, Pow(a, k - 1))

\* the largest r in lo..hi with r * r <= v
RECURSIVE ISqrtIn(_, _, _)
ISqrtIn(v, lo, hi) ==
    IF lo >= hi THEN lo
    ELSE LET mid == (lo + hi + 1) \div 2
         IN  IF mid * mid <= v THEN ISqrtIn(v, mid, hi) ELSE ISqrtIn(v, lo, mid - 1)

\* Math.sqrt(x): NaN for x < 0
Sqrt(x) == IF IsNum(x) /\ x[1] >= 0
           THEN LET v == x[1] * Scale
                IN  <<ISqrtIn(v, 0, IF v < 46340 THEN v ELSE 46340), Scale>>
           ELSE NaN

----------------------------------------------------------------------------
(* The function tables: Errors, Activations, RegularizationFunction.  A    *)
(* table is named by a string.  TANH and SIGMOID are transcendental and    *)
(* are not in the model: networks are built with RELU and LINEAR.          *)

\* Errors.SQUARE.der
ErrorDer(output, target) == Sub(output, target)

\* Activations.X.output
ActivationOutput(activation, x) ==
    IF activation = "RELU"
    THEN (IF IsNum(x) THEN (IF Lt(Zero, x) THEN x ELSE Zero) ELSE NaN)
    ELSE x

\* Activations.X.der
ActivationDer(activation, x) ==
    IF activation = "RELU"
    THEN (IF Le(x, Zero) THEN Zero ELSE One)
    ELSE One

\* RegularizationFunction.X.der
RegularizationDer(regularization, w) ==
    IF regularization = "L1"
    THEN (IF Lt(w, Zero) THEN Num(-1) ELSE IF Lt(Zero, w) THEN One ELSE Zero)
    ELSE w

----------------------------------------------------------------------------
(* Node and Link *)

\* the fields a Node has after its constructor; totalInput and output are
\* declared without a value.  The bn*/ln* statistics and gradient fields of
\* the class are never read or written by the engine and are left out.  The
\* two epsilons are 1e-8 in the source and the smallest positive number of
\* the grid here; they only keep the square root's argument positive.
NewNode(id, activation, initZero) ==
    [id |-> id,
     inputLinks |-> <<>>,
     bias |-> IF initZero THEN Zero ELSE Frac(1, 10),
     outputs |-> <<>>,
     totalInput |-> Undefined,
     output |-> Undefined,
     totalBatchInput |-> <<>>,
     batchOutput |-> <<>>,
     outputDer |-> Zero,
     inputDer |-> Zero,
     accInputDer |-> Zero,
     numAccumulatedDers |-> 0,
     activation |-> activation,
     mBias |-> IF initZero THEN Zero ELSE Frac(1, 10),
     vBias |-> IF initZero THEN Zero ELSE Frac(1, 10),
     bnGamma |-> One,
     bnBeta |-> Zero,
     bnEpsilon |-> <<1, Scale>>,
     lnGamma |-> One,
     lnBeta |-> Zero,
     lnEpsilon |-> <<1, Scale>>]

\* the fields a Link has after its constructor; random is the value of
\* Math.random() - 0.5 drawn by the field initializer
NewLink(source, dest, sourceId, destId, regularization, initZero, random) ==
    [id |-> sourceId \o "-" \o destId,
     source |-> source,
     dest |-> dest,
     weight |-> IF initZero THEN Zero ELSE random,
     isDead |-> FALSE,
     errorDer |-> Zero,
     accErrorDer |-> Zero,
     numAccumulatedDers |-> 0,
     regularization |-> regularization,
     mWeight |-> Zero,
     vWeight |-> Zero]

----------------------------------------------------------------------------
(* buildNetwork.  Layers are numbered from 1 here and from 0 in the source: *)
(* layer k of the model is layerIdx k - 1.                                  *)

Digit == <<"0", "1", "2", "3", "4", "5", "6", "7", "8", "9">>

\* Number.prototype.toString of a positive integer
RECURSIVE NumberToString(_)
NumberToString(n) == IF n < 10 THEN Digit[n + 1]
                     ELSE NumberToString(n \div 10) \o Digit[(n % 10) + 1]

\* inputIds[i]: undefined past the end of the array
IdAt(inputIds, i) == IF i <= Len(inputIds) THEN inputIds[i] ELSE "undefined"

\* a faulty variant of AddLinks: the link is not pushed to its source's outputs
RECURSIVE AddLinksOneWay(_, _, _, _, _)
AddLinksOneWay(b, layerIdx, dest, j, a) ==
    IF j > Len(b.network[layerIdx - 1]) THEN b
    ELSE LET prevNode == b.network[layerIdx - 1][j]
             h == Len(b.link) + 1
             l == NewLink(prevNode, dest, b.node[prevNode].id, b.node[dest].id,
                          a.regularization, a.initZero, a.random[h])
         IN  AddLinksOneWay([b EXCEPT !.link = Append(@, l),
                                      !.node[dest].inputLinks = Append(@, h)],
                            layerIdx, dest, j + 1, a)

\* the loop over j of lines 309-314: a link from every node of the previous
\* layer to the node dest
RECURSIVE AddLinks(_, _, _, _, _)
AddLinks(b, layerIdx, dest, j, a) ==
    IF j > Len(b.network[layerIdx - 1]) THEN b
    ELSE LET prevNode == b.network[layerIdx - 1][j]
             h == Len(b.link) + 1
             l == NewLink(prevNode, dest, b.node[prevNode].id, b.node[dest].id,
                          a.regularization, a.initZero, a.random[h])
         IN  AddLinks([b EXCEPT !.link = Append(@, l),
                                !.node[prevNode].outputs = Append(@, h),
                                !.node[dest].inputLinks = Append(@, h)],
                      layerIdx, dest, j + 1, a)

\* a faulty variant of AddNodes: the id counter is not advanced
RECURSIVE AddNodesSameId(_, _, _, _)
AddNodesSameId(b, layerIdx, i, a) ==
    IF i > a.networkShape[layerIdx] THEN b
    ELSE LET isOutputLayer == layerIdx = Len(a.networkShape)
             isInputLayer == layerIdx = 1
             nodeId == IF isInputLayer THEN IdAt(a.inputIds, i) ELSE NumberToString(b.id)
             h == Len(b.node) + 1
             n == NewNode(nodeId,
                          IF isOutputLayer THEN a.outputActivation ELSE a.activation,
                          a.initZero)
             b1 == [b EXCEPT !.node = Append(@, n),
                             !.network[layerIdx] = Append(@, h)]
             b2 == IF layerIdx >= 2 THEN AddLinks(b1, layerIdx, h, 1, a) ELSE b1
         IN  AddNodesSameId(b2, layerIdx, i + 1, a)

\* the loop over i of lines 297-316: the nodes of one layer
RECURSIVE AddNodes(_, _, _, _)
AddNodes(b, layerIdx, i, a) ==
    IF i > a.networkShape[layerIdx] THEN b
    ELSE LET isOutputLayer == layerIdx = Len(a.networkShape)
             isInputLayer == layerIdx = 1
             nodeId == IF isInputLayer THEN IdAt(a.inputIds, i) ELSE NumberToString(b.id)
             h == Len(b.node) + 1
             n == NewNode(nodeId,
                          IF isOutputLayer THEN a.outputActivation ELSE a.activation,
                          a.initZero)
             b1 == [b EXCEPT !.id = IF isInputLayer THEN @ ELSE @ + 1,
                             !.node = Append(@, n),
                             !.network[layerIdx] = Append(@, h)]
             b2 == IF layerIdx >= 2 THEN AddLinks(b1, layerIdx, h, 1, a) ELSE b1
         IN  AddNodes(b2, layerIdx, i + 1, a)

\* the loop over layerIdx of lines 291-317
RECURSIVE AddLayers(_, _, _)
AddLayers(b, layerIdx, a) ==
    IF layerIdx > Len(a.networkShape) THEN b
    ELSE AddLayers(AddNodes([b EXCEPT !.network = Append(@, <<>>)], layerIdx, 1, a),
                   layerIdx + 1, a)

\* buildNetwork(networkShape, activation, normalization, outputActivation,
\* regularization, inputIds, initZero); a.random[h] is the draw of Math.random
\* for the h-th link created
BuildNetwork(a) ==
    AddLayers([network |-> <<>>, node |-> <<>>, link |-> <<>>, id |-> 1], 1, a)

----------------------------------------------------------------------------
(* forwardProp.  A network state s is a record [network, node, link].       *)

\* the loop of Node.updateOutput: totalInput += link.weight * link.source.output
RECURSIVE SumInputs(_, _, _, _)
SumInputs(s, inputLinks, j, totalInput) ==
    IF j > Len(inputLinks) THEN totalInput
    ELSE LET l == s.link[inputLinks[j]]
         IN  SumInputs(s, inputLinks, j + 1,
                       Add(totalInput, Mul(l.weight, s.node[l.source].output)))

\* a faulty variant of UpdateOutput: a node that has an output keeps it
UpdateOutputOnce(s, h) ==
    LET n == s.node[h]
        totalInput == SumInputs(s, n.inputLinks, 1, n.bias)
    IN  IF IsNum(n.output) THEN s
        ELSE [s EXCEPT !.node[h].totalInput = totalInput,
                       !.node[h].output = ActivationOutput(n.activation, totalInput)]

\* Node.updateOutput of node h
UpdateOutput(s, h) ==
    LET n == s.node[h]
        totalInput == SumInputs(s, n.inputLinks, 1, n.bias)
    IN  [s EXCEPT !.node[h].totalInput = totalInput,
                  !.node[h].output = ActivationOutput(n.activation, totalInput)]

\* node.updateOutput() for the nodes i.. of a layer
RECURSIVE UpdateLayer(_, _, _)
UpdateLayer(s, layer, i) ==
    IF i > Len(layer) THEN s
    ELSE UpdateLayer(UpdateOutput(s, layer[i]), layer, i + 1)

\* mean += node.output over the layer
RECURSIVE SumOutputs(_, _, _, _)
SumOutputs(s, layer, i, mean) ==
    IF i > Len(layer) THEN mean
    ELSE SumOutputs(s, layer, i + 1, Add(mean, s.node[layer[i]].output))

\* variance += (node.output - mean) ** 2 over the layer
RECURSIVE SumSquares(_, _, _, _, _)
SumSquares(s, layer, i, mean, variance) ==
    IF i > Len(layer) THEN variance
    ELSE LET d == Sub(s.node[layer[i]].output, mean)
         IN  SumSquares(s, layer, i + 1, mean, Add(variance, Mul(d, d)))

\* the last loop of the layer normalization, lines 369-373
RECURSIVE NormalizeLayer(_, _, _, _, _)
NormalizeLayer(s, layer, i, mean, variance) ==
    IF i > Len(layer) THEN s
    ELSE LET n == s.node[layer[i]]
             x == Div(Sub(n.output, mean), Sqrt(Add(variance, n.lnEpsilon)))
         IN  NormalizeLayer(
                 [s EXCEPT !.node[layer[i]].output = Add(Mul(n.lnGamma, x), n.lnBeta)],
                 layer, i + 1, mean, variance)

\* lines 350-373
LayerNormalization(s, layer) ==
    LET layerSize == Num(Len(layer))
        mean == Div(SumOutputs(s, layer, 1, Zero), layerSize)
        variance == Div(SumSquares(s, layer, 1, mean, Zero), layerSize)
    IN  NormalizeLayer(s, layer, 1, mean, variance)

\* a faulty variant of ForwardLayers: the last layer is normalized too
RECURSIVE ForwardLayersNormalizesLast(_, _, _)
ForwardLayersNormalizesLast(s, layerIdx, normalization) ==
    IF layerIdx > Len(s.network) THEN s
    ELSE LET currentLayer == s.network[layerIdx]
             s1 == UpdateLayer(s, currentLayer, 1)
             s2 == IF normalization = "Layer"
                   THEN LayerNormalization(s1, currentLayer) ELSE s1
         IN  ForwardLayersNormalizesLast(s2, layerIdx + 1, normalization)

\* the loop over the layers of lines 342-375
RECURSIVE ForwardLayers(_, _, _)
ForwardLayers(s, layerIdx, normalization) ==
    IF layerIdx > Len(s.network) THEN s
    ELSE LET currentLayer == s.network[layerIdx]
             s1 == UpdateLayer(s, currentLayer, 1)
             s2 == IF normalization = "Layer" /\ layerIdx < Len(s.network)
                   THEN LayerNormalization(s1, currentLayer) ELSE s1
         IN  ForwardLayers(s2, layerIdx + 1, normalization)

\* lines 338-341: node.output = inputs[i] for the input layer
RECURSIVE SetInputs(_, _, _)
SetInputs(s, inputs, i) ==
    IF i > Len(s.network[1]) THEN s
    ELSE SetInputs([s EXCEPT !.node[s.network[1][i]].output = inputs[i]], inputs, i + 1)

\* a faulty variant of ForwardProp: the inputs are stored before their number
\* is checked
ForwardPropSetsInputsFirst(s, inputs, normalization) ==
    IF Len(inputs) # Len(s.network[1])
    THEN [s |-> SetInputs(s, inputs, 1), threw |-> "Error", value |-> Undefined]
    ELSE LET s1 == ForwardLayers(SetInputs(s, inputs, 1), 2, normalization)
         IN  [s |-> s1, threw |-> "",
              value |-> s1.node[s1.network[Len(s1.network)][1]].output]

\* forwardProp(network, inputs, normalization): the state it leaves, what it
\* threw ("" for nothing, "Error" for the Error of line 334), and the value it
\* returned
ForwardProp(s, inputs, normalization) ==
    IF Len(inputs) # Len(s.network[1])
    THEN [s |-> s, threw |-> "Error", value |-> Undefined]
    ELSE LET s1 == ForwardLayers(SetInputs(s, inputs, 1), 2, normalization)
         IN  [s |-> s1, threw |-> "",
              value |-> s1.node[s1.network[Len(s1.network)][1]].output]

----------------------------------------------------------------------------
(* backProp and backPropWithBatch.  The two functions are the same code but *)
(* for what they read: backProp reads node.output and node.totalInput,      *)
(* backPropWithBatch reads slot k of node.batchOutput and                   *)
(* node.totalBatchInput.  Here k = 0 stands for the scalar fields and       *)
(* k >= 1 for slot k - 1 of the source's arrays.                            *)

\* a faulty variant of IsDead: no loop skips a dead link
IsDeadIgnored(l) == FALSE

\* link.isDead as the loops over input links read it, to skip a dead link
\* (lines 411, 454, 541, 630)
IsDead(l) == l.isDead

\* arr[k - 1] of the source: undefined past the end of the array
At(arr, k) == IF k <= Len(arr) THEN arr[k] ELSE Undefined

OutputOf(n, k) == IF k = 0 THEN n.output ELSE At(n.batchOutput, k)
TotalInputOf(n, k) == IF k = 0 THEN n.totalInput ELSE At(n.totalBatchInput, k)

\* lines 399-404 (618-624): inputDer, accInputDer and numAccumulatedDers of
\* the nodes of a layer
RECURSIVE BackNodes(_, _, _, _)
BackNodes(s, layer, i, k) ==
    IF i > Len(layer) THEN s
    ELSE LET n == s.node[layer[i]]
             inputDer == Mul(n.outputDer,
                             ActivationDer(n.activation, TotalInputOf(n, k)))
         IN  BackNodes([s EXCEPT !.node[layer[i]].inputDer = inputDer,
                                 !.node[layer[i]].accInputDer = Add(@, inputDer),
                                 !.node[layer[i]].numAccumulatedDers = @ + 1],
                       layer, i + 1, k)

\* a faulty variant of BackLinks: dead links accumulate like the others
RECURSIVE BackLinksAll(_, _, _, _)
BackLinksAll(s, h, j, k) ==
    IF j > Len(s.node[h].inputLinks) THEN s
    ELSE LET lh == s.node[h].inputLinks[j]
             l == s.link[lh]
             errorDer == Mul(s.node[h].inputDer, OutputOf(s.node[l.source], k))
         IN  BackLinksAll([s EXCEPT !.link[lh].errorDer = errorDer,
                                    !.link[lh].accErrorDer = Add(@, errorDer),
                                    !.link[lh].numAccumulatedDers = @ + 1],
                          h, j + 1, k)

\* lines 409-417 (628-636): the input links of one node
RECURSIVE BackLinks(_, _, _, _)
BackLinks(s, h, j, k) ==
    IF j > Len(s.node[h].inputLinks) THEN s
    ELSE LET lh == s.node[h].inputLinks[j]
             l == s.link[lh]
             errorDer == Mul(s.node[h].inputDer, OutputOf(s.node[l.source], k))
         IN  IF IsDead(l)
             THEN BackLinks(s, h, j + 1, k)
             ELSE BackLinks([s EXCEPT !.link[lh].errorDer = errorDer,
                                      !.link[lh].accErrorDer = Add(@, errorDer),
                                      !.link[lh].numAccumulatedDers = @ + 1],
                            h, j + 1, k)

\* lines 407-418 (626-637)
RECURSIVE BackLayerLinks(_, _, _, _)
BackLayerLinks(s, layer, i, k) ==
    IF i > Len(layer) THEN s
    ELSE BackLayerLinks(BackLinks(s, layer[i], 1, k), layer, i + 1, k)

\* lines 427-430 (645-648): outputDer += output.weight * output.dest.inputDer
RECURSIVE SumOutputDer(_, _, _, _)
SumOutputDer(s, outputs, j, outputDer) ==
    IF j > Len(outputs) THEN outputDer
    ELSE LET l == s.link[outputs[j]]
         IN  SumOutputDer(s, outputs, j + 1,
                          Add(outputDer, Mul(l.weight, s.node[l.dest].inputDer)))

\* lines 423-431 (642-649): outputDer of the nodes of the previous layer
RECURSIVE BackPrevLayer(_, _, _)
BackPrevLayer(s, prevLayer, i) ==
    IF i > Len(prevLayer) THEN s
    ELSE BackPrevLayer(
             [s EXCEPT !.node[prevLayer[i]].outputDer =
                           SumOutputDer(s, s.node[prevLayer[i]].outputs, 1, Zero)],
             prevLayer, i + 1)

\* the loop over the layers, from the last one down to layerIdx 1 (here 2)
RECURSIVE BackLayers(_, _, _)
BackLayers(s, layerIdx, k) ==
    IF layerIdx < 2 THEN s
    ELSE LET s1 == BackNodes(s, s.network[layerIdx], 1, k)
             s2 == BackLayerLinks(s1, s.network[layerIdx], 1, k)
             s3 == IF layerIdx = 2 THEN s2
                   ELSE BackPrevLayer(s2, s.network[layerIdx - 1], 1)
         IN  BackLayers(s3, layerIdx - 1, k)

\* one backward pass for target, reading the scalar fields (k = 0) or slot k
BackPass(s, target, k) ==
    LET outputNode == s.network[Len(s.network)][1]
        s0 == [s EXCEPT !.node[outputNode].outputDer =
                            ErrorDer(OutputOf(s.node[outputNode], k), target)]
    IN  BackLayers(s0, Len(s.network), k)

\* backProp(network, target, Errors.SQUARE)
BackProp(s, target) == BackPass(s, target, 0)

\* a faulty variant of BackPropFrom: only the first example of the batch is
\* passed backwards
RECURSIVE BackPropFromFirstOnly(_, _, _)
BackPropFromFirstOnly(s, targetBatch, k) ==
    IF k > Len(targetBatch) \/ k > 1 THEN s
    ELSE BackPropFromFirstOnly(BackPass(s, targetBatch[k], k), targetBatch, k + 1)

\* backPropWithBatch(network, targetBatch, Errors.SQUARE)
RECURSIVE BackPropFrom(_, _, _)
BackPropFrom(s, targetBatch, k) ==
    IF k > Len(targetBatch) THEN s
    ELSE BackPropFrom(BackPass(s, targetBatch[k], k), targetBatch, k + 1)

BackPropWithBatch(s, targetBatch) == BackPropFrom(s, targetBatch, 1)

----------------------------------------------------------------------------
(* updateWeights *)

\* a faulty variant of UpdateBias: the accumulated derivative is applied
\* without the division by the number of accumulated derivatives
UpdateBiasRawSum(n, learningRate) ==
    IF n.numAccumulatedDers > 0
    THEN [n EXCEPT !.bias = Sub(@, Mul(learningRate, n.accInputDer)),
                   !.accInputDer = Zero,
                   !.numAccumulatedDers = 0]
    ELSE n

\* a faulty variant of UpdateBias: the accumulated derivative is not cleared
UpdateBiasKeepsAccumulator(n, learningRate) ==
    IF n.numAccumulatedDers > 0
    THEN [n EXCEPT !.bias = Sub(@, Div(Mul(learningRate, n.accInputDer),
                                       Num(n.numAccumulatedDers))),
                   !.numAccumulatedDers = 0]
    ELSE n

\* lines 446-450: the bias of one node
UpdateBias(n, learningRate) ==
    IF n.numAccumulatedDers > 0
    THEN [n EXCEPT !.bias = Sub(@, Div(Mul(learningRate, n.accInputDer),
                                       Num(n.numAccumulatedDers))),
                   !.accInputDer = Zero,
                   !.numAccumulatedDers = 0]
    ELSE n

\* link.regularization ? link.regularization.der(link.weight) : 0
RegulDer(l) ==
    IF l.regularization = "null" THEN Zero
    ELSE RegularizationDer(l.regularization, l.weight)

\* a faulty variant of UpdateLink: the regularization step is taken even when
\* nothing is accumulated
UpdateLinkAlwaysDecays(l, learningRate, regularizationRate) ==
    IF IsDead(l) THEN l
    ELSE LET regulDer == RegulDer(l)
             weight == Sub(l.weight,
                           Mul(Div(learningRate, Num(l.numAccumulatedDers)),
                               l.accErrorDer))
             newLinkWeight == Sub(weight,
                                  Mul(Mul(learningRate, regularizationRate), regulDer))
         IN  IF l.numAccumulatedDers > 0
             THEN IF l.regularization = "L1" /\ Lt(Mul(weight, newLinkWeight), Zero)
                  THEN [l EXCEPT !.weight = Zero, !.isDead = TRUE,
                                 !.accErrorDer = Zero, !.numAccumulatedDers = 0]
                  ELSE [l EXCEPT !.weight = newLinkWeight,
                                 !.accErrorDer = Zero, !.numAccumulatedDers = 0]
             ELSE [l EXCEPT !.weight =
                               Sub(@, Mul(Mul(learningRate, regularizationRate),
                                          regulDer))]

\* a faulty variant of UpdateLink: a link is pruned whatever its
\* regularization
UpdateLinkPrunesAll(l, learningRate, regularizationRate) ==
    IF IsDead(l) THEN l
    ELSE LET regulDer == RegulDer(l)
             weight == Sub(l.weight,
                           Mul(Div(learningRate, Num(l.numAccumulatedDers)),
                               l.accErrorDer))
             newLinkWeight == Sub(weight,
                                  Mul(Mul(learningRate, regularizationRate), regulDer))
         IN  IF l.numAccumulatedDers > 0
             THEN IF Lt(Mul(weight, newLinkWeight), Zero)
                  THEN [l EXCEPT !.weight = Zero, !.isDead = TRUE,
                                 !.accErrorDer = Zero, !.numAccumulatedDers = 0]
                  ELSE [l EXCEPT !.weight = newLinkWeight,
                                 !.accErrorDer = Zero, !.numAccumulatedDers = 0]
             ELSE l

\* a faulty variant of UpdateLink: the regularization derivative is taken at
\* the weight the gradient step gives
UpdateLinkDerAfterStep(l, learningRate, regularizationRate) ==
    IF IsDead(l) THEN l
    ELSE LET weight == Sub(l.weight,
                           Mul(Div(learningRate, Num(l.numAccumulatedDers)),
                               l.accErrorDer))
             regulDer == RegulDer([l EXCEPT !.weight = weight])
             newLinkWeight == Sub(weight,
                                  Mul(Mul(learningRate, regularizationRate), regulDer))
         IN  IF l.numAccumulatedDers > 0
             THEN IF l.regularization = "L1" /\ Lt(Mul(weight, newLinkWeight), Zero)
                  THEN [l EXCEPT !.weight = Zero, !.isDead = TRUE,
                                 !.accErrorDer = Zero, !.numAccumulatedDers = 0]
                  ELSE [l EXCEPT !.weight = newLinkWeight,
                                 !.accErrorDer = Zero, !.numAccumulatedDers = 0]
             ELSE l

\* a faulty variant of UpdateLink: a pruned link keeps the weight of the
\* gradient step
UpdateLinkKeepsWeight(l, learningRate, regularizationRate) ==
    IF IsDead(l) THEN l
    ELSE LET regulDer == RegulDer(l)
             weight == Sub(l.weight,
                           Mul(Div(learningRate, Num(l.numAccumulatedDers)),
                               l.accErrorDer))
             newLinkWeight == Sub(weight,
                                  Mul(Mul(learningRate, regularizationRate), regulDer))
         IN  IF l.numAccumulatedDers > 0
             THEN IF l.regularization = "L1" /\ Lt(Mul(weight, newLinkWeight), Zero)
                  THEN [l EXCEPT !.weight = weight, !.isDead = TRUE,
                                 !.accErrorDer = Zero, !.numAccumulatedDers = 0]
                  ELSE [l EXCEPT !.weight = newLinkWeight,
                                 !.accErrorDer = Zero, !.numAccumulatedDers = 0]
             ELSE l

\* lines 454-476: one input link
UpdateLink(l, learningRate, regularizationRate) ==
    IF IsDead(l) THEN l
    ELSE LET regulDer == RegulDer(l)
             weight == Sub(l.weight,
                           Mul(Div(learningRate, Num(l.numAccumulatedDers)),
                               l.accErrorDer))
             newLinkWeight == Sub(weight,
                                  Mul(Mul(learningRate, regularizationRate), regulDer))
         IN  IF l.numAccumulatedDers > 0
             THEN IF l.regularization = "L1" /\ Lt(Mul(weight, newLinkWeight), Zero)
                  THEN [l EXCEPT !.weight = Zero, !.isDead = TRUE,
                                 !.accErrorDer = Zero, !.numAccumulatedDers = 0]
                  ELSE [l EXCEPT !.weight = newLinkWeight,
                                 !.accErrorDer = Zero, !.numAccumulatedDers = 0]
             ELSE l

\* a faulty variant of UpdateLinks: a link that is dead after its update is
\* taken out of the input links of its destination
RECURSIVE UpdateLinksRemovesPruned(_, _, _, _, _)
UpdateLinksRemovesPruned(s, inputLinks, j, learningRate, regularizationRate) ==
    IF j > Len(inputLinks) THEN s
    ELSE LET lh == inputLinks[j]
             l == UpdateLink(s.link[lh], learningRate, regularizationRate)
             s1 == [s EXCEPT !.link[lh] = l]
             s2 == IF l.isDead
                   THEN [s1 EXCEPT !.node[l.dest].inputLinks =
                                       SelectSeq(@, LAMBDA x : x # lh)]
                   ELSE s1
         IN  UpdateLinksRemovesPruned(s2, inputLinks, j + 1,
                                      learningRate, regularizationRate)

\* the loop over j of lines 452-477
RECURSIVE UpdateLinks(_, _, _, _, _)
UpdateLinks(s, inputLinks, j, learningRate, regularizationRate) ==
    IF j > Len(inputLinks) THEN s
    ELSE UpdateLinks(
             [s EXCEPT !.link[inputLinks[j]] =
                           UpdateLink(@, learningRate, regularizationRate)],
             inputLinks, j + 1, learningRate, regularizationRate)

\* the loop over i of lines 443-478
RECURSIVE UpdateNodes(_, _, _, _, _)
UpdateNodes(s, layer, i, learningRate, regularizationRate) ==
    IF i > Len(layer) THEN s
    ELSE LET s1 == [s EXCEPT !.node[layer[i]] = UpdateBias(@, learningRate)]
         IN  UpdateNodes(
                 UpdateLinks(s1, s.node[layer[i]].inputLinks, 1,
                             learningRate, regularizationRate),
                 layer, i + 1, learningRate, regularizationRate)

\* the loop over layerIdx of lines 441-479
RECURSIVE UpdateLayers(_, _, _, _)
UpdateLayers(s, layerIdx, learningRate, regularizationRate) ==
    IF layerIdx > Len(s.network) THEN s
    ELSE UpdateLayers(
             UpdateNodes(s, s.network[layerIdx], 1, learningRate, regularizationRate),
             layerIdx + 1, learningRate, regularizationRate)

\* updateWeights(network, learningRate, regularizationRate)
UpdateWeights(s, learningRate, regularizationRate) ==
    UpdateLayers(s, 2, learningRate, regularizationRate)

----------------------------------------------------------------------------
(* updateWeightsWithAdam.  p holds the arguments: learningRate,             *)
(* regularizationRate, iteration, beta1, beta2, epsilon.                    *)

\* lines 520-536: the bias of one node
AdamBias(n, p) ==
    IF n.numAccumulatedDers > 0
    THEN LET gBias == Div(n.accInputDer, Num(n.numAccumulatedDers))
             mBias == Add(Mul(p.beta1, n.mBias), Mul(Sub(One, p.beta1), gBias))
             vBias == Add(Mul(p.beta2, n.vBias),
                          Mul(Mul(Sub(One, p.beta2), gBias), gBias))
             mHatBias == Div(mBias, Sub(One, Pow(p.beta1, p.iteration)))
             vHatBias == Div(vBias, Sub(One, Pow(p.beta2, p.iteration)))
         IN  [n EXCEPT !.mBias = mBias,
                       !.vBias = vBias,
                       !.bias = Sub(@, Div(Mul(p.learningRate, mHatBias),
                                           Add(Sqrt(vHatBias), p.epsilon))),
                       !.accInputDer = Zero,
                       !.numAccumulatedDers = 0]
    ELSE n

\* lines 545-553 and the first term of line 560: the moment estimates of a
\* link and the step they give, mHatWeight / (Math.sqrt(vHatWeight) + epsilon)
AdamStep(l, p) ==
    LET gWeight == Div(l.accErrorDer, Num(l.numAccumulatedDers))
        mWeight == Add(Mul(p.beta1, l.mWeight), Mul(Sub(One, p.beta1), gWeight))
        vWeight == Add(Mul(p.beta2, l.vWeight),
                       Mul(Mul(Sub(One, p.beta2), gWeight), gWeight))
        mHatWeight == Div(mWeight, Sub(One, Pow(p.beta1, p.iteration)))
        vHatWeight == Div(vWeight, Sub(One, Pow(p.beta2, p.iteration)))
    IN  [mWeight |-> mWeight, vWeight |-> vWeight,
         step |-> Div(mHatWeight, Add(Sqrt(vHatWeight), p.epsilon))]

\* a faulty variant of AdamLink: a pruned link keeps the weight of its step
AdamLinkKeepsWeight(l, p) ==
    IF IsDead(l) \/ l.numAccumulatedDers = 0 THEN l
    ELSE LET alpha == p.learningRate
             m == AdamStep(l, p)
             regulDer == RegulDer(l)
             weight == Sub(l.weight,
                           Mul(alpha,
                               Add(m.step, Mul(p.regularizationRate, regulDer))))
             crossed == l.regularization = "L1" /\
                        Lt(Mul(weight,
                               Sub(weight,
                                   Mul(Mul(alpha, p.regularizationRate), regulDer))),
                           Zero)
         IN  [l EXCEPT !.mWeight = m.mWeight,
                       !.vWeight = m.vWeight,
                       !.weight = weight,
                       !.isDead = crossed,
                       !.accErrorDer = Zero,
                       !.numAccumulatedDers = 0]

\* lines 541-573: one input link
AdamLink(l, p) ==
    IF IsDead(l) \/ l.numAccumulatedDers = 0 THEN l
    ELSE LET alpha == p.learningRate
             m == AdamStep(l, p)
             regulDer == RegulDer(l)
             weight == Sub(l.weight,
                           Mul(alpha,
                               Add(m.step, Mul(p.regularizationRate, regulDer))))
             crossed == l.regularization = "L1" /\
                        Lt(Mul(weight,
                               Sub(weight,
                                   Mul(Mul(alpha, p.regularizationRate), regulDer))),
                           Zero)
         IN  [l EXCEPT !.mWeight = m.mWeight,
                       !.vWeight = m.vWeight,
                       !.weight = IF crossed THEN Zero ELSE weight,
                       !.isDead = crossed,
                       !.accErrorDer = Zero,
                       !.numAccumulatedDers = 0]

\* the loop over j of lines 539-574
RECURSIVE AdamLinks(_, _, _, _)
AdamLinks(s, inputLinks, j, p) ==
    IF j > Len(inputLinks) THEN s
    ELSE AdamLinks([s EXCEPT !.link[inputLinks[j]] = AdamLink(@, p)],
                   inputLinks, j + 1, p)

\* the loop over i of lines 516-575
RECURSIVE AdamNodes(_, _, _, _)
AdamNodes(s, layer, i, p) ==
    IF i > Len(layer) THEN s
    ELSE LET s1 == [s EXCEPT !.node[layer[i]] = AdamBias(@, p)]
         IN  AdamNodes(AdamLinks(s1, s.node[layer[i]].inputLinks, 1, p),
                       layer, i + 1, p)

\* the loop over layerIdx of lines 514-576
RECURSIVE AdamLayers(_, _, _)
AdamLayers(s, layerIdx, p) ==
    IF layerIdx > Len(s.network) THEN s
    ELSE AdamLayers(AdamNodes(s, s.network[layerIdx], 1, p), layerIdx + 1, p)

\* updateWeightsWithAdam(network, learningRate, regularizationRate, iteration,
\* beta1, beta2, epsilon)
UpdateWeightsWithAdam(s, p) == AdamLayers(s, 2, p)

----------------------------------------------------------------------------
(* forwardPropWithBatch *)

\* arr[k - 1] = v of the source: an assignment at the end of the array grows it
SetAt(arr, k, v) == IF k <= Len(arr) THEN [arr EXCEPT ![k] = v] ELSE Append(arr, v)

\* the loop over j of Node.updateBatchOutput, for slot i
RECURSIVE SumBatchInputs(_, _, _, _, _)
SumBatchInputs(s, inputLinks, j, i, totalInput) ==
    IF j > Len(inputLinks) THEN totalInput
    ELSE LET l == s.link[inputLinks[j]]
         IN  SumBatchInputs(s, inputLinks, j + 1, i,
                 Add(totalInput, Mul(l.weight, At(s.node[l.source].batchOutput, i))))

\* the loop over i of Node.updateBatchOutput: one slot for every slot of the
\* first source's batchOutput
RECURSIVE UpdateBatchSlots(_, _, _)
UpdateBatchSlots(s, h, i) ==
    LET n == s.node[h]
    IN  IF i > Len(s.node[s.link[n.inputLinks[1]].source].batchOutput) THEN s
        ELSE LET totalInput == SumBatchInputs(s, n.inputLinks, 1, i, n.bias)
                 output == ActivationOutput(n.activation, totalInput)
             IN  UpdateBatchSlots(
                     [s EXCEPT !.node[h].totalInput = totalInput,
                               !.node[h].output = output,
                               !.node[h].totalBatchInput = SetAt(@, i, totalInput),
                               !.node[h].batchOutput = SetAt(@, i, output)],
                     h, i + 1)

\* Node.updateBatchOutput of node h
UpdateBatchOutput(s, h) == UpdateBatchSlots(s, h, 1)

\* sum of the entries i.. of a batchOutput array
RECURSIVE SumBatch(_, _, _)
SumBatch(batchOutput, i, mean) ==
    IF i > Len(batchOutput) THEN mean
    ELSE SumBatch(batchOutput, i + 1, Add(mean, batchOutput[i]))

\* variance += (batchOutput[i] - mean) ** 2
RECURSIVE SumBatchSquares(_, _, _, _)
SumBatchSquares(batchOutput, i, mean, variance) ==
    IF i > Len(batchOutput) THEN variance
    ELSE LET d == Sub(batchOutput[i], mean)
         IN  SumBatchSquares(batchOutput, i + 1, mean, Add(variance, Mul(d, d)))

\* the last loop of Node.batchNormalization, lines 136-139
RECURSIVE NormalizeBatch(_, _, _, _, _)
NormalizeBatch(n, batchOutput, i, mean, variance) ==
    IF i > Len(batchOutput) THEN batchOutput
    ELSE LET x == Div(Sub(batchOutput[i], mean), Sqrt(Add(variance, n.bnEpsilon)))
         IN  NormalizeBatch(n, [batchOutput EXCEPT ![i] = Add(Mul(n.bnGamma, x), n.bnBeta)],
                            i + 1, mean, variance)

\* Node.batchNormalization of a node with fields n: its new batchOutput
BatchNormalization(n) ==
    LET batchSize == Num(Len(n.batchOutput))
        mean == Div(SumBatch(n.batchOutput, 1, Zero), batchSize)
        variance == Div(SumBatchSquares(n.batchOutput, 1, mean, Zero), batchSize)
    IN  NormalizeBatch(n, n.batchOutput, 1, mean, variance)

\* lines 589-592: slot bni of the input nodes; input[i] is undefined past
\* the end of the vector
RECURSIVE SetBatchInputs(_, _, _, _)
SetBatchInputs(s, input, bni, i) ==
    IF i > Len(s.network[1]) THEN s
    ELSE SetBatchInputs(
             [s EXCEPT !.node[s.network[1][i]].batchOutput = SetAt(@, bni, At(input, i))],
             input, bni, i + 1)

\* lines 596-603: the nodes of a layer other than the input layer
RECURSIVE BatchLayerNodes(_, _, _)
BatchLayerNodes(s, layerIdx, i) ==
    IF i > Len(s.network[layerIdx]) THEN s
    ELSE LET h == s.network[layerIdx][i]
             s1 == UpdateBatchOutput(s, h)
             s2 == IF layerIdx = Len(s.network) THEN s1
                   ELSE [s1 EXCEPT !.node[h].batchOutput = BatchNormalization(s1.node[h])]
         IN  BatchLayerNodes(s2, layerIdx, i + 1)

\* inputs.forEach((input, bni) => ...) for one layer, lines 587-605
RECURSIVE BatchForEach(_, _, _, _)
BatchForEach(s, inputs, layerIdx, bni) ==
    IF bni > Len(inputs) THEN s
    ELSE BatchForEach(IF layerIdx = 1 THEN SetBatchInputs(s, inputs[bni], bni, 1)
                                      ELSE BatchLayerNodes(s, layerIdx, 1),
                      inputs, layerIdx, bni + 1)

\* the loop over layerIdx of lines 586-606
RECURSIVE BatchLayers(_, _, _)
BatchLayers(s, inputs, layerIdx) ==
    IF layerIdx > Len(s.network) THEN s
    ELSE BatchLayers(BatchForEach(s, inputs, layerIdx, 1), inputs, layerIdx + 1)

\* forwardPropWithBatch(network, inputs): the state it leaves, what it threw
\* ("" for nothing; inputs[0].length of an empty batch is a TypeError), and
\* the array it returned
ForwardPropWithBatch(s, inputs) ==
    IF Len(inputs) = 0
    THEN [s |-> s, threw |-> "TypeError", values |-> <<>>]
    ELSE IF Len(inputs[1]) # Len(s.network[1])
    THEN [s |-> s, threw |-> "Error", values |-> <<>>]
    ELSE LET s1 == BatchLayers(s, inputs, 1)
         IN  [s |-> s1, threw |-> "",
              values |-> s1.node[s1.network[Len(s1.network)][1]].batchOutput]

----------------------------------------------------------------------------
(* The state machine: a network is built, then its caller makes any        *)
(* sequence of calls on it.  Spec explores every order of the six calls    *)
(* over varied arguments; SpecDeep explores longer sequences of the six    *)
(* calls over one argument each; SpecBuild is buildNetwork alone, over     *)
(* varied shapes and input ids.                                            *)

\* the number of calls made on a network, under Spec and under SpecDeep
MaxCalls == 3
MaxDeepCalls == 6
\* the shapes buildNetwork is given under SpecBuild
MaxLayers == 3
MaxWidth == 2

\* the values the callers pass
InputValues == {Zero, One}
Targets == {One}
Normalizations == {"none", "Batch", "Layer"}
LearningRates == {Frac(1, 2)}
RegularizationRates == {Zero, One}
BatchSizes == {1, 2}
Betas == {[beta1 |-> Frac(9, 10), beta2 |-> Frac(999, 1000), epsilon |-> <<1, Scale>>]}

RECURSIVE NumLinks(_, _)
NumLinks(shape, k) ==
    IF k >= Len(shape) THEN 0 ELSE shape[k] * shape[k + 1] + NumLinks(shape, k + 1)

\* the draws of Math.random() - 0.5 for n links
RandomDraw(n) == [h \in 1..n |-> IF h % 2 = 1 THEN Frac(1, 4) ELSE Frac(-1, 4)]

\* buildNetwork(shape, RELU, "none", LINEAR, reg, ids, initZero)
Args(shape, reg, ids, initZero) ==
    [networkShape |-> shape, activation |-> "RELU", normalization |-> "none",
     outputActivation |-> "LINEAR", regularization |-> reg,
     inputIds |-> ids, initZero |-> initZero,
     random |-> RandomDraw(NumLinks(shape, 1))]

\* the network as one value
S == [network |-> network, node |-> node, link |-> link]

\* the state a buildNetwork call with arguments a leaves, its caller having
\* n calls to make on the network
Built(a, n) ==
    /\ LET b == BuildNetwork(a)
       IN  /\ args = a
           /\ network = b.network
           /\ node = b.node
           /\ link = b.link
    /\ iter = 0
    /\ left = n
    /\ ret = [op |-> "buildNetwork", inputs |-> <<>>, threw |-> "",
              value |-> Undefined, values |-> <<>>]

Init ==
    \E a \in {Args(<<1, 2, 1>>, reg, <<"x">>, FALSE) : reg \in {"null", "L1", "L2"}}
             \cup {Args(<<1, 1, 1>>, "L1", <<"x">>, FALSE)} :
        Built(a, MaxCalls)

InitDeep ==
    \E a \in {Args(shape, "L1", <<"x">>, FALSE) : shape \in {<<1, 1, 1>>, <<1, 2, 1>>}} :
        Built(a, MaxDeepCalls)

\* the vector of n copies of v
Const(n, v) == [i \in 1..n |-> v]

\* vectors of the length of the input layer, and a vector one too long
Ones == Const(Len(network[1]), One)
Zeros == Const(Len(network[1]), Zero)
LongInput == Const(Len(network[1]) + 1, One)

\* the batches the callers pass: the empty batch, a batch of one vector of
\* ones, and batches of vectors of ones whose last vector differs or is one
\* too long
Batches ==
    {<<>>, <<Ones>>} \cup
    { Const(size - 1, Ones) \o <<v>> : size \in BatchSizes, v \in {Zeros, LongInput} }

\* what every call does to the caller's variables
Called(s, r) ==
    /\ left > 0
    /\ left' = left - 1
    /\ network' = s.network
    /\ node' = s.node
    /\ link' = s.link
    /\ ret' = r
    /\ UNCHANGED args

\* forwardProp(network, inputs, normalization)
ForwardPropCalls(inputSet, modes) ==
    \E inputs \in inputSet, normalization \in modes :
        LET r == ForwardProp(S, inputs, normalization)
        IN  /\ Called(r.s, [op |-> "forwardProp", inputs |-> <<inputs, normalization>>,
                            threw |-> r.threw, value |-> r.value, values |-> <<>>])
            /\ UNCHANGED iter

\* forwardPropWithBatch(network, inputs)
ForwardPropWithBatchCalls(batches) ==
    \E inputs \in batches :
        LET r == ForwardPropWithBatch(S, inputs)
        IN  /\ Called(r.s, [op |-> "forwardPropWithBatch", inputs |-> inputs,
                            threw |-> r.threw, value |-> Undefined,
                            values |-> r.values])
            /\ UNCHANGED iter

\* backProp(network, target, Errors.SQUARE)
BackPropCall ==
    \E target \in Targets :
        /\ Called(BackProp(S, target),
                  [op |-> "backProp", inputs |-> <<target>>, threw |-> "",
                   value |-> Undefined, values |-> <<>>])
        /\ UNCHANGED iter

\* backPropWithBatch(network, targetBatch, Errors.SQUARE)
BackPropWithBatchCalls(sizes) ==
    \E size \in sizes :
    \E targetBatch \in [1..size -> Targets] :
        /\ Called(BackPropWithBatch(S, targetBatch),
                  [op |-> "backPropWithBatch", inputs |-> targetBatch, threw |-> "",
                   value |-> Undefined, values |-> <<>>])
        /\ UNCHANGED iter

\* updateWeights(network, learningRate, regularizationRate)
UpdateWeightsCalls(rates) ==
    \E learningRate \in LearningRates, regularizationRate \in rates :
        /\ Called(UpdateWeights(S, learningRate, regularizationRate),
                  [op |-> "updateWeights",
                   inputs |-> <<learningRate, regularizationRate>>, threw |-> "",
                   value |-> Undefined, values |-> <<>>])
        /\ iter' = iter + 1

\* updateWeightsWithAdam(network, learningRate, regularizationRate, iteration,
\* beta1, beta2, epsilon), the caller counting its update calls from 1
UpdateWeightsWithAdamCalls(rates) ==
    \E learningRate \in LearningRates, regularizationRate \in rates, b \in Betas :
        LET p == [learningRate |-> learningRate,
                  regularizationRate |-> regularizationRate,
                  iteration |-> iter + 1,
                  beta1 |-> b.beta1, beta2 |-> b.beta2, epsilon |-> b.epsilon]
        IN  /\ Called(UpdateWeightsWithAdam(S, p),
                      [op |-> "updateWeightsWithAdam",
                       inputs |-> <<learningRate, regularizationRate>>, threw |-> "",
                       value |-> Undefined, values |-> <<>>])
            /\ iter' = iter + 1

ForwardPropCall == ForwardPropCalls({Zeros, Ones, LongInput}, Normalizations)
ForwardPropWithBatchCall == ForwardPropWithBatchCalls(Batches)
BackPropWithBatchCall == BackPropWithBatchCalls(BatchSizes)
UpdateWeightsCall == UpdateWeightsCalls(RegularizationRates)
UpdateWeightsWithAdamCall == UpdateWeightsWithAdamCalls(RegularizationRates)

Next ==
    \/ ForwardPropCall
    \/ ForwardPropWithBatchCall
    \/ BackPropCall
    \/ BackPropWithBatchCall
    \/ UpdateWeightsCall
    \/ UpdateWeightsWithAdamCall

Spec == Init /\ [][Next]_vars

DeepForwardProp == ForwardPropCalls({Ones}, {"none"})
DeepForwardPropWithBatch == ForwardPropWithBatchCalls({<<Ones, Zeros>>})
DeepBackPropWithBatch == BackPropWithBatchCalls({2})
DeepUpdateWeights == UpdateWeightsCalls({One})
DeepUpdateWeightsWithAdam == UpdateWeightsWithAdamCalls({One})

NextDeep ==
    \/ DeepForwardProp
    \/ DeepForwardPropWithBatch
    \/ BackPropCall
    \/ DeepBackPropWithBatch
    \/ DeepUpdateWeights
    \/ DeepUpdateWeightsWithAdam

SpecDeep == InitDeep /\ [][NextDeep]_vars

\* the shapes of up to MaxLayers layers of 1..MaxWidth nodes
BuildShapes == UNION {[1..n -> 1..MaxWidth] : n \in 1..MaxLayers}

\* the ids callers give input nodes
IdNames == {"x", "y", "1", "2"}

\* the input id lists given with a shape: as many ids as input nodes, one
\* fewer or one more
BuildIds(shape) == UNION {[1..n -> IdNames] : n \in (shape[1] - 1)..(shape[1] + 1)}

\* no network yet
InitBuild ==
    /\ args = Args(<<>>, "null", <<>>, FALSE)
    /\ network = <<>>
    /\ node = <<>>
    /\ link = <<>>
    /\ iter = 0
    /\ left = 0
    /\ ret = [op |-> "", inputs |-> <<>>, threw |-> "",
              value |-> Undefined, values |-> <<>>]

\* buildNetwork(shape, RELU, "none", LINEAR, regularization, inputIds, initZero)
BuildNetworkCall ==
    /\ ret.op = ""
    /\ \E shape \in BuildShapes, reg \in {"null", "L1"}, initZero \in BOOLEAN :
       \E ids \in BuildIds(shape) :
          LET a == Args(shape, reg, ids, initZero)
              b == BuildNetwork(a)
          IN  /\ args' = a
              /\ network' = b.network
              /\ node' = b.node
              /\ link' = b.link
              /\ ret' = [op |-> "buildNetwork", inputs |-> <<>>, threw |-> "",
                         value |-> Undefined, values |-> <<>>]
              /\ UNCHANGED <<iter, left>>

SpecBuild == InitBuild /\ [][BuildNetworkCall]_vars

----------------------------------------------------------------------------
(* Properties of a network under calls (Spec, SpecDeep)                     *)

UpdateOps == {"updateWeights", "updateWeightsWithAdam"}

\* C1: after any call of updateWeights or updateWeightsWithAdam, every node's
\* accInputDer and numAccumulatedDers are 0 and every non-dead link's
\* accErrorDer and numAccumulatedDers are 0.
AccumulatorsReset ==
    ret.op \in UpdateOps =>
        /\ \A h \in DOMAIN node :
              node[h].accInputDer = Zero /\ node[h].numAccumulatedDers = 0
        /\ \A l \in DOMAIN link :
              ~link[l].isDead =>
                  link[l].accErrorDer = Zero /\ link[l].numAccumulatedDers = 0

\* an update call has applied an accumulated derivative: a bias has moved
AccumulatorsResetWitness ==
    /\ ret.op \in UpdateOps
    /\ \E h \in DOMAIN node : IsNum(node[h].bias) /\ node[h].bias # Frac(1, 10)
    /\ \E l \in DOMAIN link : ~link[l].isDead /\ link[l].weight # args.random[l]

\* C2: a link whose isDead is true keeps isDead true and keeps its weight
\* through every call, whichever of the six calls it is.
DeadLinkMonotonic ==
    [][\A l \in DOMAIN link :
          link[l].isDead => link'[l].isDead /\ link'[l].weight = link[l].weight]_vars

\* a link has died in an update call and a backward pass has gone over the
\* network since, accumulating on a link that is alive
DeadLinkMonotonicWitness ==
    /\ ret.op \in {"backProp", "backPropWithBatch"}
    /\ \E l, m \in DOMAIN link :
          /\ link[l].isDead
          /\ ~link[m].isDead
          /\ link[m].numAccumulatedDers > 0

\* C3: a forwardProp call whose input vector has a length other than the
\* number of input-layer nodes throws the Error and leaves every node and
\* every link as it was.
ShapeMismatchLeavesNetwork ==
    [][(ret'.op = "forwardProp" /\ Len(ret'.inputs[1]) # Len(network[1])) =>
          /\ ret'.threw = "Error"
          /\ network' = network
          /\ node' = node
          /\ link' = link]_vars

\* forwardProp has thrown on a network that earlier calls have written to
ShapeMismatchWitness ==
    /\ ret.op = "forwardProp"
    /\ Len(ret.inputs[1]) # Len(network[1])
    /\ ret.threw = "Error"
    /\ \E h \in DOMAIN node : IsNum(node[h].totalInput) /\ node[h].numAccumulatedDers > 0

\* C4: forwardPropWithBatch throws the Error whenever some vector of the
\* batch, at any position, has a length other than the number of input-layer
\* nodes.
BatchShapeChecked ==
    (/\ ret.op = "forwardPropWithBatch"
     /\ \E k \in DOMAIN ret.inputs : Len(ret.inputs[k]) # Len(network[1]))
    => ret.threw = "Error"

\* C5: the array a forwardPropWithBatch call returns is as long as the batch
\* of that call, whatever the sizes of the batches of the calls before it.
BatchReturnLength ==
    (ret.op = "forwardPropWithBatch" /\ ret.threw = "")
    => Len(ret.values) = Len(ret.inputs)

\* the parameters of a network without the state calls leave in it: the
\* fields of the nodes and links as their constructors set them, but for
\* weight, isDead and bias
Fresh(s) ==
    [s EXCEPT
       !.node = [h \in DOMAIN s.node |->
                    [NewNode(s.node[h].id, s.node[h].activation, args.initZero)
                        EXCEPT !.inputLinks = s.node[h].inputLinks,
                               !.outputs = s.node[h].outputs,
                               !.bias = s.node[h].bias]],
       !.link = [l \in DOMAIN s.link |->
                    [s.link[l] EXCEPT !.errorDer = Zero,
                                      !.accErrorDer = Zero,
                                      !.numAccumulatedDers = 0,
                                      !.mWeight = Zero,
                                      !.vWeight = Zero]]]

\* C6: forwardProp on a valid-length input returns the value, and leaves in
\* every node the totalInput and output, that it returns and leaves on the
\* network of the same structure, weights, biases and normalization mode
\* that no call has been made on: what earlier calls left in the network
\* has no effect.
ForwardDeterminism ==
    [][(ret'.op = "forwardProp" /\ ret'.threw = "") =>
          LET r == ForwardProp(Fresh(S), ret'.inputs[1], ret'.inputs[2])
          IN  /\ ret'.value = r.value
              /\ \A h \in DOMAIN node :
                    /\ node'[h].totalInput = r.s.node[h].totalInput
                    /\ node'[h].output = r.s.node[h].output]_vars

\* forwardProp has returned a number on a network that holds the outputs of
\* an earlier forward pass and the accumulated derivatives of a backward pass
ForwardDeterminismWitness ==
    /\ ret.op = "forwardProp"
    /\ ret.threw = ""
    /\ IsNum(ret.value)
    /\ \E h \in DOMAIN node :
          /\ node[h].numAccumulatedDers > 0
          /\ IsNum(node[h].accInputDer)
          /\ node[h].accInputDer # Zero

\* x and y are numbers of strictly opposite signs
OppositeSigns(x, y) == (Lt(x, Zero) /\ Lt(Zero, y)) \/ (Lt(Zero, x) /\ Lt(y, Zero))

\* the links the pruning rules are about: alive, under L1, with at least one
\* accumulated derivative
Prunable(l) ==
    ~link[l].isDead /\ link[l].regularization = "L1" /\ link[l].numAccumulatedDers > 0

\* C7: updateWeights, on a non-dead L1 link with at least one accumulated
\* derivative: if the weight after the gradient step and the weight after the
\* regularization step that follows it have strictly opposite signs, the
\* link ends with weight 0 and isDead true; otherwise it stays alive and its
\* weight is the weight after the regularization step.  The regularization
\* step is the one the function takes (line 457 gives its derivative).
L1Pruning ==
    [][ret'.op = "updateWeights" =>
          \A l \in DOMAIN link :
             Prunable(l) =>
                LET learningRate == ret'.inputs[1]
                    regularizationRate == ret'.inputs[2]
                    afterGradient ==
                        Sub(link[l].weight,
                            Mul(Div(learningRate, Num(link[l].numAccumulatedDers)),
                                link[l].accErrorDer))
                    afterRegularization ==
                        Sub(afterGradient,
                            Mul(Mul(learningRate, regularizationRate),
                                RegulDer(link[l])))
                IN  IF OppositeSigns(afterGradient, afterRegularization)
                    THEN link'[l].weight = Zero /\ link'[l].isDead
                    ELSE link'[l].weight = afterRegularization /\ ~link'[l].isDead]_vars

\* updateWeights has pruned a link and, in the same call, has moved another
\* link without pruning it
L1PruningWitness ==
    /\ ret.op = "updateWeights"
    /\ iter = 1
    /\ \E l, m \in DOMAIN link :
          /\ link[l].isDead
          /\ link[l].weight = Zero
          /\ ~link[m].isDead
          /\ link[m].regularization = "L1"
          /\ IsNum(link[m].weight)
          /\ link[m].weight # args.random[m]

\* C8: updateWeightsWithAdam prunes a non-dead L1 link with accumulated
\* gradient exactly when the candidate weight after the moment-based step
\* alone and the weight after the regularization term is applied too have
\* strictly opposite signs, as updateWeights does.
AdamPruning ==
    [][ret'.op = "updateWeightsWithAdam" =>
          \A l \in DOMAIN link :
             Prunable(l) =>
                LET alpha == ret'.inputs[1]
                    regularizationRate == ret'.inputs[2]
                    b == CHOOSE x \in Betas : TRUE
                    p == [learningRate |-> alpha,
                          regularizationRate |-> regularizationRate,
                          iteration |-> iter', beta1 |-> b.beta1,
                          beta2 |-> b.beta2, epsilon |-> b.epsilon]
                    step == AdamStep(link[l], p).step
                    candidate == Sub(link[l].weight, Mul(alpha, step))
                    regularized ==
                        Sub(link[l].weight,
                            Mul(alpha, Add(step, Mul(regularizationRate,
                                                     RegulDer(link[l])))))
                IN  (link'[l].isDead /\ link'[l].weight = Zero)
                    <=> OppositeSigns(candidate, regularized)]_vars

----------------------------------------------------------------------------
(* Properties of the network buildNetwork returns (SpecBuild)               *)

\* the layer a node is in
LayerOf(h) == CHOOSE k \in DOMAIN network : \E i \in DOMAIN network[k] : network[k][i] = h

\* the elements of a sequence
Range(seq) == {seq[i] : i \in DOMAIN seq}

\* the number of places of a sequence that hold x
Count(seq, x) == Cardinality({i \in DOMAIN seq : seq[i] = x})

\* C9: in a built network a node's inputLinks is empty iff the node is in
\* layer 0, its outputs is empty iff it is in the last layer, every pair of
\* nodes of adjacent layers is joined by exactly one link, which is in the
\* source's outputs and in the destination's inputLinks, and no link joins
\* layers that are not adjacent.
BuiltStructure ==
    ret.op = "buildNetwork" =>
        /\ \A h \in DOMAIN node :
              /\ node[h].inputLinks = <<>> <=> LayerOf(h) = 1
              /\ node[h].outputs = <<>> <=> LayerOf(h) = Len(network)
              /\ \A l \in Range(node[h].inputLinks) : link[l].dest = h
              /\ \A l \in Range(node[h].outputs) : link[l].source = h
        /\ \A k \in 1..(Len(network) - 1) :
              \A s \in Range(network[k]), d \in Range(network[k + 1]) :
                 /\ Cardinality({l \in DOMAIN link :
                                    link[l].source = s /\ link[l].dest = d}) = 1
                 /\ \E l \in DOMAIN link :
                       /\ link[l].source = s
                       /\ link[l].dest = d
                       /\ Count(node[s].outputs, l) = 1
                       /\ Count(node[d].inputLinks, l) = 1
        /\ \A l \in DOMAIN link : LayerOf(link[l].dest) = LayerOf(link[l].source) + 1

\* a network of three layers with two nodes in each of the first two
BuiltStructureWitness ==
    /\ ret.op = "buildNetwork"
    /\ Len(network) = 3
    /\ Len(network[1]) = 2
    /\ Len(network[2]) = 2
    /\ Len(link) = 4 + Len(network[3]) * 2

\* the nodes that are not in the input layer, in the order of their creation
RECURSIVE Inner(_, _)
Inner(k, i) ==
    IF k > Len(network) THEN <<>>
    ELSE IF i > Len(network[k]) THEN Inner(k + 1, 1)
    ELSE <<network[k][i]>> \o Inner(k, i + 1)

\* C10: in a built network the input-layer nodes carry the supplied inputIds
\* in order, every other node carries the next value of one counter that
\* starts at 1 and runs in layer order then position order, and no two nodes
\* share an id, whatever the ids the caller supplies.
UniqueNodeIds ==
    (ret.op = "buildNetwork" /\ Len(args.inputIds) = Len(network[1])) =>
        /\ \A i \in DOMAIN network[1] : node[network[1][i]].id = args.inputIds[i]
        /\ \A c \in DOMAIN Inner(2, 1) : node[Inner(2, 1)[c]].id = NumberToString(c)
        /\ \A g, h \in DOMAIN node : g # h => node[g].id # node[h].id

\* the ids of the caller are pairwise distinct and none of them is the
\* numeral of a value the counter takes
IdsApart ==
    /\ \A i, j \in DOMAIN args.inputIds : i # j => args.inputIds[i] # args.inputIds[j]
    /\ \A i \in DOMAIN args.inputIds, c \in DOMAIN Inner(2, 1) :
          args.inputIds[i] # NumberToString(c)

\* C10, with the condition it needs: the input-layer nodes carry the supplied
\* inputIds in order, every other node carries the next value of the counter,
\* and no two nodes share an id, provided the supplied ids are pairwise
\* distinct and none is the numeral of a value the counter takes.
UniqueNodeIdsApart ==
    (ret.op = "buildNetwork" /\ Len(args.inputIds) = Len(network[1]) /\ IdsApart) =>
        /\ \A i \in DOMAIN network[1] : node[network[1][i]].id = args.inputIds[i]
        /\ \A c \in DOMAIN Inner(2, 1) : node[Inner(2, 1)[c]].id = NumberToString(c)
        /\ \A g, h \in DOMAIN node : g # h => node[g].id # node[h].id

\* a network whose input ids are a name and a numeral past the one value the
\* counter takes
UniqueNodeIdsWitness ==
    /\ ret.op = "buildNetwork"
    /\ args.inputIds = <<"x", "2">>
    /\ args.networkShape = <<2, 1>>
    /\ IdsApart

----------------------------------------------------------------------------
(* Further properties of a network under calls (Spec, SpecDeep)             *)

\* the nodes of the layers after the input layer
InnerNodes == {h \in DOMAIN node : h \notin Range(network[1])}

\* C11: every call leaves the layers, the nodes of each layer, every node's
\* inputLinks and outputs and every link's source and dest as they were; of
\* the structure only a link's isDead changes, and only from false to true.
StructureImmutable ==
    [][/\ network' = network
       /\ DOMAIN node' = DOMAIN node
       /\ DOMAIN link' = DOMAIN link
       /\ \A h \in DOMAIN node :
             /\ node'[h].inputLinks = node[h].inputLinks
             /\ node'[h].outputs = node[h].outputs
       /\ \A l \in DOMAIN link :
             /\ link'[l].source = link[l].source
             /\ link'[l].dest = link[l].dest
             /\ link[l].isDead => link'[l].isDead]_vars

\* an update call has pruned a link of a network that has two hidden nodes,
\* and the link is still among the input links of its destination
StructureImmutableWitness ==
    /\ ret.op \in UpdateOps
    /\ Len(network[2]) = 2
    /\ \E l \in DOMAIN link :
          /\ link[l].isDead
          /\ Count(node[link[l].dest].inputLinks, l) = 1
          /\ Count(node[link[l].source].outputs, l) = 1

\* the sum over the examples k.. of the batch of the inputDer node h gets in
\* the backward pass of the example
RECURSIVE SumInputDers(_, _, _)
SumInputDers(targetBatch, k, h) ==
    IF k > Len(targetBatch) THEN Zero
    ELSE Add(BackPass(S, targetBatch[k], k).node[h].inputDer,
             SumInputDers(targetBatch, k + 1, h))

\* the same sum for the errorDer of link l
RECURSIVE SumErrorDers(_, _, _)
SumErrorDers(targetBatch, k, l) ==
    IF k > Len(targetBatch) THEN Zero
    ELSE Add(BackPass(S, targetBatch[k], k).link[l].errorDer,
             SumErrorDers(targetBatch, k + 1, l))

\* C12: backPropWithBatch with a batch of B targets adds B to
\* numAccumulatedDers of every node after the input layer and of every
\* non-dead link, and adds to accInputDer and accErrorDer the sum of the
\* derivatives of the B examples.
BatchAccumulates ==
    [][ret'.op = "backPropWithBatch" =>
          LET targetBatch == ret'.inputs
              B == Len(targetBatch)
          IN  /\ \A h \in InnerNodes :
                    /\ node'[h].numAccumulatedDers = node[h].numAccumulatedDers + B
                    /\ node'[h].accInputDer =
                          Add(node[h].accInputDer, SumInputDers(targetBatch, 1, h))
              /\ \A l \in DOMAIN link :
                    ~link[l].isDead =>
                       /\ link'[l].numAccumulatedDers = link[l].numAccumulatedDers + B
                       /\ link'[l].accErrorDer =
                             Add(link[l].accErrorDer, SumErrorDers(targetBatch, 1, l))]_vars

\* backPropWithBatch has accumulated the derivatives of two examples
BatchAccumulatesWitness ==
    /\ ret.op = "backPropWithBatch"
    /\ Len(ret.inputs) = 2
    /\ \E h \in InnerNodes :
          /\ node[h].numAccumulatedDers = 2
          /\ IsNum(node[h].accInputDer)
          /\ node[h].accInputDer # Zero
          /\ node[h].accInputDer # Add(node[h].inputDer, node[h].inputDer)

\* C13: buildNetwork reports an error, and returns no network, when the
\* number of inputIds differs from the first entry of networkShape.
BuildChecksInputIds ==
    (ret.op = "buildNetwork" /\ Len(args.inputIds) # args.networkShape[1])
    => (ret.threw # "" /\ network = <<>>)

\* C14: the values forwardPropWithBatch returns for the vectors of its batch
\* do not depend on the batches of earlier calls: they are the values the
\* same call returns on the network of the same weights and biases that no
\* call has been made on, where every mean and variance is taken over the
\* entries of the current batch alone.
BatchNormalizationOverBatch ==
    [][(ret'.op = "forwardPropWithBatch" /\ ret'.threw = "") =>
          LET r == ForwardPropWithBatch(Fresh(S), ret'.inputs)
          IN  \A k \in DOMAIN ret'.inputs : At(ret'.values, k) = r.values[k]]_vars

\* the weight the gradient step of updateWeights gives link l
AfterGradient(l, learningRate) ==
    Sub(link[l].weight,
        Mul(Div(learningRate, Num(link[l].numAccumulatedDers)), link[l].accErrorDer))

\* C15: in updateWeights, for a non-dead link with accumulated gradient, the
\* regularization step takes regularization.der at the weight w' the
\* gradient step gives: the link, unless pruned, ends with
\* w' - learningRate * regularizationRate * der(w').
RegularizationAfterStep ==
    [][ret'.op = "updateWeights" =>
          \A l \in DOMAIN link :
             (~link[l].isDead /\ link[l].numAccumulatedDers > 0 /\ ~link'[l].isDead) =>
                LET w == AfterGradient(l, ret'.inputs[1])
                    der == RegulDer([link[l] EXCEPT !.weight = w])
                IN  link'[l].weight =
                       Sub(w, Mul(Mul(ret'.inputs[1], ret'.inputs[2]), der))]_vars

\* C15, as the function computes it: the regularization step takes
\* regularization.der at the weight the link has before the gradient step:
\* the link, unless pruned, ends with
\* w' - learningRate * regularizationRate * der(weight).
RegularizationBeforeStep ==
    [][ret'.op = "updateWeights" =>
          \A l \in DOMAIN link :
             (~link[l].isDead /\ link[l].numAccumulatedDers > 0 /\ ~link'[l].isDead) =>
                LET w == AfterGradient(l, ret'.inputs[1])
                    der == RegulDer(link[l])
                IN  link'[l].weight =
                       Sub(w, Mul(Mul(ret'.inputs[1], ret'.inputs[2]), der))]_vars

\* the first update has moved an L2 link by a gradient that is not zero and
\* by a regularization step that is not zero, so that the derivative differs
\* before and after the gradient step
RegularizationBeforeStepWitness ==
    /\ ret.op = "updateWeights"
    /\ iter = 1
    /\ ret.inputs[2] = One
    /\ \E l \in DOMAIN link :
          /\ link[l].regularization = "L2"
          /\ IsNum(link[l].weight)
          /\ link[l].weight # args.random[l]
          /\ link[l].weight #
                Sub(args.random[l], Mul(Mul(ret.inputs[1], ret.inputs[2]), args.random[l]))

\* C16: every backward pass adds its inputDer and errorDer to the
\* accumulators and 1 to the counts, so that after k passes the accumulators
\* hold the sums of the k derivatives; updateWeights then changes each bias
\* by -learningRate * accInputDer / k and each non-dead link's weight, before
\* regularization, by -(learningRate / k) * accErrorDer: the sum divided by
\* k, never the sum itself.
Averaging ==
    [][/\ ret'.op = "backProp" =>
             /\ \A h \in InnerNodes :
                   /\ node'[h].numAccumulatedDers = node[h].numAccumulatedDers + 1
                   /\ node'[h].accInputDer = Add(node[h].accInputDer, node'[h].inputDer)
             /\ \A l \in DOMAIN link :
                   ~link[l].isDead =>
                      /\ link'[l].numAccumulatedDers = link[l].numAccumulatedDers + 1
                      /\ link'[l].accErrorDer =
                            Add(link[l].accErrorDer, link'[l].errorDer)
       /\ ret'.op = "backPropWithBatch" =>
             \A h \in InnerNodes :
                /\ node'[h].numAccumulatedDers =
                      node[h].numAccumulatedDers + Len(ret'.inputs)
                /\ node'[h].accInputDer =
                      Add(node[h].accInputDer, SumInputDers(ret'.inputs, 1, h))
       /\ ret'.op = "updateWeights" =>
             /\ \A h \in InnerNodes :
                   node[h].numAccumulatedDers > 0 =>
                      node'[h].bias =
                         Sub(node[h].bias,
                             Div(Mul(ret'.inputs[1], node[h].accInputDer),
                                 Num(node[h].numAccumulatedDers)))
             /\ \A l \in DOMAIN link :
                   (/\ ~link[l].isDead
                    /\ link[l].numAccumulatedDers > 0
                    /\ (link[l].regularization = "null" \/ ret'.inputs[2] = Zero)) =>
                      link'[l].weight = AfterGradient(l, ret'.inputs[1])]_vars

\* the first update has moved a bias by the mean of derivatives that differ:
\* not by the derivative of the last pass alone
AveragingWitness ==
    /\ ret.op = "updateWeights"
    /\ iter = 1
    /\ \E h \in InnerNodes :
          /\ IsNum(node[h].bias)
          /\ IsNum(node[h].inputDer)
          /\ node[h].bias # Frac(1, 10)
          /\ node[h].bias # Sub(Frac(1, 10), Mul(ret.inputs[1], node[h].inputDer))

\* the sum of weight * source.output over the links j.. of inputLinks, dead
\* or not, in the nodes nd and links lk
RECURSIVE SumTerms(_, _, _, _)
SumTerms(nd, lk, inputLinks, j) ==
    IF j > Len(inputLinks) THEN Zero
    ELSE Add(Mul(lk[inputLinks[j]].weight, nd[lk[inputLinks[j]].source].output),
             SumTerms(nd, lk, inputLinks, j + 1))

\* C17: backProp and backPropWithBatch leave errorDer, accErrorDer and
\* numAccumulatedDers of a dead link as they were; for a link that is not
\* dead they set errorDer to dest.inputDer * source.output (the slot of the
\* example in source.batchOutput for a batch), add it to accErrorDer and add
\* 1 to numAccumulatedDers for every example.  forwardProp sums weight *
\* source.output over all the input links of a node, the dead ones too.
DeadLinksInPasses ==
    [][/\ ret'.op = "backProp" =>
             \A l \in DOMAIN link :
                IF link[l].isDead
                THEN /\ link'[l].errorDer = link[l].errorDer
                     /\ link'[l].accErrorDer = link[l].accErrorDer
                     /\ link'[l].numAccumulatedDers = link[l].numAccumulatedDers
                ELSE /\ link'[l].errorDer =
                           Mul(node'[link[l].dest].inputDer, node[link[l].source].output)
                     /\ link'[l].accErrorDer =
                           Add(link[l].accErrorDer, link'[l].errorDer)
                     /\ link'[l].numAccumulatedDers = link[l].numAccumulatedDers + 1
       /\ ret'.op = "backPropWithBatch" =>
             LET B == Len(ret'.inputs)
             IN  \A l \in DOMAIN link :
                    IF link[l].isDead
                    THEN /\ link'[l].errorDer = link[l].errorDer
                         /\ link'[l].accErrorDer = link[l].accErrorDer
                         /\ link'[l].numAccumulatedDers = link[l].numAccumulatedDers
                    ELSE /\ link'[l].errorDer =
                               Mul(node'[link[l].dest].inputDer,
                                   At(node[link[l].source].batchOutput, B))
                         /\ link'[l].accErrorDer =
                               Add(link[l].accErrorDer, SumErrorDers(ret'.inputs, 1, l))
                         /\ link'[l].numAccumulatedDers =
                               link[l].numAccumulatedDers + B
       /\ (ret'.op = "forwardProp" /\ ret'.threw = "") =>
             \A h \in InnerNodes :
                node'[h].totalInput =
                   Add(node[h].bias, SumTerms(node', link', node[h].inputLinks, 1))]_vars

\* a batch of two examples has been passed backwards over a network with a
\* dead link: the dead link has accumulated nothing, a link that is alive
\* has accumulated both examples
DeadLinksInPassesWitness ==
    /\ ret.op = "backPropWithBatch"
    /\ \E l, m \in DOMAIN link :
          /\ link[l].isDead
          /\ link[l].numAccumulatedDers = 0
          /\ ~link[m].isDead
          /\ link[m].numAccumulatedDers = 2
          /\ IsNum(link[m].accErrorDer)

\* the nodes and links, with the output of every node of the layer set to
\* the activation of its totalInput
RawOutputs(s, layer) ==
    [s EXCEPT !.node = [h \in DOMAIN s.node |->
                           IF h \in Range(layer)
                           THEN [s.node[h] EXCEPT !.output =
                                    ActivationOutput(s.node[h].activation,
                                                     s.node[h].totalInput)]
                           ELSE s.node[h]]]

\* C18: forwardProp normalizes only under the mode "Layer" and only the
\* layers between the input layer and the last layer.  In every mode the
\* output node's output is the activation of its totalInput and is the value
\* returned, and every node's totalInput is bias + the sum of weight *
\* source.output over its input links, source.output being what the call
\* leaves in the source.  In a mode other than "Layer" a hidden node's output
\* is the activation of its totalInput; under "Layer" it is that value
\* normalized over its layer.
LayerNormalizationScope ==
    [][(ret'.op = "forwardProp" /\ ret'.threw = "") =>
          LET last == Len(network)
              outputNode == network[last][1]
              after == [network |-> network', node |-> node', link |-> link']
          IN  /\ node'[outputNode].output =
                    ActivationOutput(node[outputNode].activation,
                                     node'[outputNode].totalInput)
              /\ ret'.value = node'[outputNode].output
              /\ \A h \in InnerNodes :
                    node'[h].totalInput =
                       Add(node[h].bias, SumTerms(node', link', node[h].inputLinks, 1))
              /\ \A k \in 2..(last - 1) :
                    \A h \in Range(network[k]) :
                       node'[h].output =
                          IF ret'.inputs[2] = "Layer"
                          THEN LayerNormalization(RawOutputs(after, network[k]),
                                                  network[k]).node[h].output
                          ELSE ActivationOutput(node[h].activation,
                                                node'[h].totalInput)]_vars

\* forwardProp under "Layer" has returned a number from a network whose two
\* hidden nodes it has normalized to outputs that are not the activations of
\* their totalInput
LayerNormalizationScopeWitness ==
    /\ ret.op = "forwardProp"
    /\ ret.threw = ""
    /\ ret.inputs[2] = "Layer"
    /\ IsNum(ret.value)
    /\ Len(network[2]) = 2
    /\ \A h \in Range(network[2]) :
          /\ IsNum(node[h].output)
          /\ node[h].output # ActivationOutput(node[h].activation, node[h].totalInput)

\* C19: in every state reached from a built network by forward, backward
\* and update calls, a link whose isDead is true has weight 0.
DeadLinkWeightZero ==
    \A l \in DOMAIN link : link[l].isDead => link[l].weight = Zero

\* updateWeightsWithAdam has pruned a link
DeadLinkWeightZeroWitness ==
    /\ ret.op = "updateWeightsWithAdam"
    /\ iter = 1
    /\ \E l \in DOMAIN link : link[l].isDead

\* C20: a link becomes dead only if its regularization is L1 and only in an
\* update call, plain or Adam, whose regularization rate is not 0; so that in
\* a network built with no regularization or with L2, or updated at rate 0
\* only, no link is ever dead.
DeathOnlyUnderL1 ==
    /\ [](args.regularization # "L1" => \A l \in DOMAIN link : ~link[l].isDead)
    /\ [][\A l \in DOMAIN link :
             (~link[l].isDead /\ link'[l].isDead) =>
                /\ link[l].regularization = "L1"
                /\ ret'.op \in UpdateOps
                /\ ret'.inputs[2] # Zero]_vars

\* updates at rate 0 have moved the weights of an L1 network and left every
\* link alive
DeathOnlyUnderL1Witness ==
    /\ ret.op \in UpdateOps
    /\ ret.inputs[2] = Zero
    /\ args.regularization = "L1"
    /\ \A l \in DOMAIN link : ~link[l].isDead
    /\ \E l \in DOMAIN link : IsNum(link[l].weight) /\ link[l].weight # args.random[l]

\* no node and no link holds an accumulated derivative: the state no
\* backward pass since the previous update leaves
NothingAccumulated ==
    /\ \A h \in DOMAIN node : node[h].numAccumulatedDers = 0
    /\ \A l \in DOMAIN link : link[l].numAccumulatedDers = 0

\* C21: an update call, plain or Adam, made when nothing is accumulated, and
\* so an update call that follows an update call at once, leaves every node
\* and every link as it was: bias, weight, isDead and moment estimates, with
\* no regularization step on any weight whatever the regularization rate.
UpdateWithNothingAccumulated ==
    [][(ret'.op \in UpdateOps /\ (NothingAccumulated \/ ret.op \in UpdateOps)) =>
          /\ network' = network
          /\ node' = node
          /\ link' = link]_vars

\* four calls have been made, two of them updates at a regularization rate
\* that is not 0, every link is under L1 and has a weight that is a number
\* other than the one it was built with, and nothing is accumulated: one of
\* the two updates found nothing accumulated
UpdateWithNothingAccumulatedWitness ==
    /\ ret.op \in UpdateOps
    /\ ret.inputs[2] # Zero
    /\ iter = 2
    /\ left = MaxDeepCalls - 4
    /\ NothingAccumulated
    /\ \E l \in DOMAIN link :
          /\ link[l].regularization = "L1"
          /\ IsNum(link[l].weight)
          /\ link[l].weight # Zero
          /\ link[l].weight # args.random[l]

\* the layers between the input layer and the output layer
HiddenLayers == 2 .. (Len(network) - 1)

\* C22: forwardPropWithBatch with a batch of one vector sets slot 0 of every
\* hidden node's batchOutput to 0 and returns for it what it returns for any
\* other batch of one vector; forwardProp in "Layer" mode sets the output of
\* the one node of a one-node hidden layer to 0.
DegenerateNormalization ==
    [][/\ (ret'.op = "forwardPropWithBatch" /\ ret'.threw = ""
              /\ Len(ret'.inputs) = 1) =>
             /\ \A k \in HiddenLayers : \A i \in DOMAIN network[k] :
                   At(node'[network[k][i]].batchOutput, 1) = Zero
             /\ \A b \in Batches :
                   LET r == ForwardPropWithBatch(S, b)
                   IN  (Len(b) = 1 /\ r.threw = "") =>
                          At(r.values, 1) = At(ret'.values, 1)
       /\ (ret'.op = "forwardProp" /\ ret'.threw = ""
              /\ ret'.inputs[2] = "Layer") =>
             \A k \in HiddenLayers :
                Len(network[k]) = 1 => node'[network[k][1]].output = Zero]_vars

====
